---- MODULE Spec2Model ----
(***************************************************************************)
(* A model of the contact-book backend (goit-pythonweb-hw-012): the user   *)
(* store, the Redis user cache, the JWT issuer/verifier, the user service  *)
(* and repository, the /auth and /contacts request handlers.               *)
(*                                                                         *)
(* Every request handler and every service operation is one atomic action, *)
(* except the signup requests of `inflight`, the lookups of `lookups` and  *)
(* the calls of `RedisClient`, which advance from one await to the next.   *)
(* The last response is kept in `resp` so that properties can speak about  *)
(* what a call answered.                                                   *)
(***************************************************************************)
EXTENDS Integers, FiniteSets, Sequences, TLC

VARIABLES
    users,          \* the users table: email -> row (the domain is the set of rows)
    next_user_id,   \* the users.id autoincrement sequence
    cache,          \* Redis: email -> serialized UserModel snapshot (key "user:email:{email}")
    cache_src,      \* history: the users row each cache entry was serialized from
    contacts,       \* the contacts table: a set of rows
    next_contact_id,\* the contacts.id autoincrement sequence
    tokens,         \* every token string issued so far (create_*_token)
    now,            \* the wall clock, in whole seconds (datetime.now(UTC))
    today,          \* the calendar day, as a day number (date.today())
    resp,           \* the last call: what was asked and what was answered
    inflight,       \* the signup requests under way: request -> its position
    RedisClient,    \* the class RedisClient and the calls of its methods under way
    lookups         \* the get_user_by_email calls under way: request -> position

vars == <<users, next_user_id, cache, cache_src, contacts, next_contact_id,
          tokens, now, today, resp, inflight, RedisClient, lookups>>

userVars    == <<users, next_user_id>>
cacheVars   == <<cache, cache_src>>
contactVars == <<contacts, next_contact_id>>

-----------------------------------------------------------------------------
(* Bounds of the model *)

MaxTime == 2
MaxTokens == 2
MaxContacts == 2
MaxDay == 1
MaxDaysAhead == 7

(* Input domains *)

Emails == {"a@x.io", "b@x.io"}
Passwords == {"pw1", "pw2"}
AvatarUrls == {"https://img/1"}
ContactEmails == {"c1@y.io", "c2@y.io"}
Phones == {"+3801", "+3802"}

None == "None"
NoSub == "None"
NoType == "None"

-----------------------------------------------------------------------------
(* src/database/models.py *)

ADMIN == "ADMIN"
USER == "USER"
UserRole == {ADMIN, USER}

\* The columns of the users table.
UserColumns == {"id", "email", "password_hash", "created_at", "avatar_url",
                "refresh_token", "email_verified", "reset_password_token", "role"}

-----------------------------------------------------------------------------
(* src/conf/config.py: the settings the environment supplies *)

JWT_SECRET == "JWT_SECRET"
ACCESS_TOKEN_EXPIRE_SECONDS == 1
REFRESH_TOKEN_EXPIRE_SECONDS == 2
VERIFICATION_TOKEN_EXPIRE_SECONDS == 1

-----------------------------------------------------------------------------
(* Hash: bcrypt through passlib.  A digest is opaque and is not the         *)
(* plaintext; verify tells whether the digest was made from the plaintext.  *)

get_password_hash(password) == <<"bcrypt", password>>

verify_password(plain_password, hashed_password) ==
    hashed_password = <<"bcrypt", plain_password>>

-----------------------------------------------------------------------------
(* JWT: jose.jwt.encode / jose.jwt.decode.  A token string is represented  *)
(* by its claims and the key that signed it.                                *)

NullToken == [sub |-> NoSub, exp |-> 0, iat |-> 0, token_type |-> NoType, key |-> "null"]
MalformedToken == [sub |-> NoSub, exp |-> 0, iat |-> 0, token_type |-> NoType, key |-> "garbage"]

jwt_encode(claims, key) ==
    [sub |-> claims.sub, exp |-> claims.exp, iat |-> claims.iat,
     token_type |-> claims.token_type, key |-> key]

\* jose raises JWTError for a malformed string, for a signature made with
\* another key, and (ExpiredSignatureError) when exp < now.
jwt_decode(token, key, t) ==
    IF token.key # key THEN [ok |-> FALSE, sub |-> NoSub, token_type |-> NoType]
    ELSE IF token.exp < t THEN [ok |-> FALSE, sub |-> NoSub, token_type |-> NoType]
    ELSE [ok |-> TRUE, sub |-> token.sub, token_type |-> token.token_type]

create_jwt_token(sub, expires_delta, token_type, t) ==
    jwt_encode([sub |-> sub, exp |-> t + expires_delta, iat |-> t,
                token_type |-> token_type], JWT_SECRET)

\* An access token given the lifetime of a refresh token.
create_access_token_refresh_ttl(sub, t) ==
    create_jwt_token(sub, REFRESH_TOKEN_EXPIRE_SECONDS, "access", t)

create_access_token(sub, t) ==
    create_jwt_token(sub, ACCESS_TOKEN_EXPIRE_SECONDS, "access", t)

create_refresh_token(sub, t) ==
    create_jwt_token(sub, REFRESH_TOKEN_EXPIRE_SECONDS, "refresh", t)

create_email_token(sub, t) ==
    jwt_encode([sub |-> sub, exp |-> t + VERIFICATION_TOKEN_EXPIRE_SECONDS,
                iat |-> t, token_type |-> NoType], JWT_SECRET)

\* The token strings a client may present: the issued ones, the same claims
\* signed with another key, and a string that is no JWT.
ForgedOf(tok) == [tok EXCEPT !.key = "attacker"]
Presentable == tokens \cup {ForgedOf(tok) : tok \in tokens} \cup {MalformedToken}

-----------------------------------------------------------------------------
(* The user cache (UserService.cache_user / invalidate_user_cache /        *)
(* get_cached_user_by_email)                                               *)

\* UserModel: the response/cache schema, the public fields of a user.
UserModel(user) ==
    [id |-> user.id, email |-> user.email, avatar_url |-> user.avatar_url,
     email_verified |-> user.email_verified, role |-> user.role]

Put(f, k, v) == [x \in DOMAIN f \cup {k} |-> IF x = k THEN v ELSE f[x]]
Drop(f, k) == [x \in DOMAIN f \ {k} |-> f[x]]

cache_user(c, user) == Put(c, user.email, UserModel(user))
cache_user_src(cs, user) == Put(cs, user.email, user)

invalidate_user_cache(c, email) == Drop(c, email)

-----------------------------------------------------------------------------
(* UserRepository (src/repository/users.py)                                *)

UPDATABLE_FIELDS == {"password_hash", "avatar_url", "email_verified",
                     "reset_password_token"}

\* self._valid_fields: the column attributes of the User mapper.
valid_fields == UserColumns

Exists(email) == email \in DOMAIN users

\* select(User).filter_by(email=email) ... scalar_one_or_none(); only called
\* below where the row exists, the callers test Exists first.
Repo_get_user_by_email(email) == users[email]

\* UserCreate.model_dump(exclude_unset=True, exclude={"password"}) gives the
\* email and, when the payload sets it, the role; the column defaults fill
\* the rest (email_verified False, role USER).
Repo_create_user(body, avatar_url) ==
    [id |-> next_user_id,
     email |-> body.email,
     password_hash |-> body.password,
     avatar_url |-> avatar_url,
     refresh_token |-> NullToken,
     email_verified |-> FALSE,
     reset_password_token |-> NullToken,
     role |-> IF body.role = None THEN USER ELSE body.role]

Repo_set_email_verified(user) == [user EXCEPT !.email_verified = TRUE]

Repo_update_user_avatar(user, avatar_url) == [user EXCEPT !.avatar_url = avatar_url]

Repo_update_user_password(user, new_hashed_password) ==
    [user EXCEPT !.password_hash = new_hashed_password]

Repo_update_reset_password_token(user, token) ==
    [user EXCEPT !.reset_password_token = token]

\* for key, value in fields.items(): setattr(user, key, value)
SetAttrs(user, fields) ==
    [c \in DOMAIN user \cup DOMAIN fields |->
        IF c \in DOMAIN fields THEN fields[c] ELSE user[c]]

\* A loop that sets each allowed field as it meets it and raises at the
\* first field it may not set.
Repo_update_multiple_fields_partial(user, fields) ==
    IF DOMAIN fields \ (valid_fields \cap UPDATABLE_FIELDS) # {}
    THEN [raised |-> TRUE, error |-> "Cannot update protected fields",
          user |-> SetAttrs(user, [n \in DOMAIN fields \cap UPDATABLE_FIELDS |->
                                      fields[n]]),
          committed |-> FALSE, refreshed |-> FALSE]
    ELSE [raised |-> FALSE, error |-> None,
          user |-> SetAttrs(user, fields), committed |-> TRUE, refreshed |-> TRUE]

\* update_multiple_fields: the result tells whether ValueError was raised,
\* the user object as the call leaves it, and whether the session committed
\* and refreshed.
Repo_update_multiple_fields(user, fields) ==
    IF DOMAIN fields \ valid_fields # {}
    THEN [raised |-> TRUE, error |-> "Fields do not exist in User model",
          user |-> user, committed |-> FALSE, refreshed |-> FALSE]
    ELSE IF DOMAIN fields \ UPDATABLE_FIELDS # {}
    THEN [raised |-> TRUE, error |-> "Cannot update protected fields",
          user |-> user, committed |-> FALSE, refreshed |-> FALSE]
    ELSE [raised |-> FALSE, error |-> None,
          user |-> SetAttrs(user, fields), committed |-> TRUE, refreshed |-> TRUE]

-----------------------------------------------------------------------------
(* UserService (src/services/users.py)                                     *)

\* UserService.__init__(self, db, redis_client): a call that passes fewer
\* positional arguments raises TypeError.
UserService_params == 2
UserService_init(nargs) == nargs = UserService_params

\* A merge whose values stay on the row: the fields of the cached snapshot
\* the caller was built from overwrite those of the row.
ensure_user_managed_snapshot_wins(email) ==
    IF email \in DOMAIN cache THEN SetAttrs(users[email], cache[email])
    ELSE users[email]

\* _ensure_user_managed: a detached object is merged into the session and
\* refreshed, so the object worked on carries the row's current state.
ensure_user_managed(email) == users[email]

Answer(op, arg, status, detail, out) ==
    [op |-> op, arg |-> arg, status |-> status, detail |-> detail, out |-> out]

NoOut == <<>>

\* UserService.create_user: the INSERT of a second row with the same email
\* violates the unique constraint on users.email (IntegrityError at commit).
UserService_create_user(body) ==
    /\ IF Exists(body.email)
       THEN /\ resp' = Answer("UserService.create_user", body, "IntegrityError",
                              "users_email_key", NoOut)
            /\ UNCHANGED <<userVars, cacheVars>>
       ELSE LET user == Repo_create_user(body, None) IN
            /\ users' = Put(users, body.email, user)
            /\ next_user_id' = next_user_id + 1
            /\ cache' = cache_user(cache, user)
            /\ cache_src' = cache_user_src(cache_src, user)
            /\ resp' = Answer("UserService.create_user", body, "ok", None, user)
    /\ UNCHANGED <<contactVars, tokens, now, today, inflight, RedisClient, lookups>>

\* UserService.get_user_by_email: read the row, cache it when there is one.
UserService_get_user_by_email(email) ==
    /\ IF Exists(email)
       THEN /\ cache' = cache_user(cache, users[email])
            /\ cache_src' = cache_user_src(cache_src, users[email])
            /\ resp' = Answer("UserService.get_user_by_email", email, "ok", None,
                              users[email])
       ELSE /\ UNCHANGED cacheVars
            /\ resp' = Answer("UserService.get_user_by_email", email, "ok", None, None)
    /\ UNCHANGED <<userVars, contactVars, tokens, now, today, inflight, RedisClient, lookups>>

\* UserService.get_cached_user_by_email: the cache alone, never the store.
UserService_get_cached_user_by_email(email) ==
    /\ resp' = Answer("UserService.get_cached_user_by_email", email, "ok", None,
                      IF email \in DOMAIN cache
                      THEN [hit |-> TRUE, user |-> cache[email], src |-> cache_src[email]]
                      ELSE [hit |-> FALSE, user |-> None, src |-> None])
    /\ UNCHANGED <<userVars, cacheVars, contactVars, tokens, now, today, inflight, RedisClient, lookups>>

UserService_confirm_user_email(email) ==
    /\ Exists(email)
    /\ LET user == Repo_set_email_verified(ensure_user_managed(email)) IN
       /\ users' = [users EXCEPT ![email] = user]
       /\ cache' = cache_user(cache, user)
       /\ cache_src' = cache_user_src(cache_src, user)
       /\ resp' = Answer("UserService.confirm_user_email", email, "ok", None, user)
    /\ UNCHANGED <<next_user_id, contactVars, tokens, now, today, inflight, RedisClient, lookups>>

UserService_update_avatar(email, avatar_url) ==
    /\ Exists(email)
    /\ LET user == Repo_update_user_avatar(ensure_user_managed(email), avatar_url) IN
       /\ users' = [users EXCEPT ![email] = user]
       /\ cache' = cache_user(cache, user)
       /\ cache_src' = cache_user_src(cache_src, user)
       /\ resp' = Answer("UserService.update_avatar", email, "ok", None, user)
    /\ UNCHANGED <<next_user_id, contactVars, tokens, now, today, inflight, RedisClient, lookups>>

\* An update that leaves the cache entry where it is.
PasswordCacheEffect_keep(c, email) == c

\* What update_user_password does to the cache once the row is written.
PasswordCacheEffect(c, email) == invalidate_user_cache(c, email)

UserService_update_user_password(email, new_hashed_password) ==
    /\ Exists(email)
    /\ LET old == ensure_user_managed(email)
           user == Repo_update_user_password(old, new_hashed_password) IN
       /\ users' = [users EXCEPT ![email] = user]
       /\ cache' = PasswordCacheEffect(cache, user.email)
       /\ cache_src' = PasswordCacheEffect(cache_src, user.email)
       /\ resp' = Answer("UserService.update_user_password", email, "ok", None,
                         [before |-> old, after |-> user,
                          was_cached |-> email \in DOMAIN cache])
    /\ UNCHANGED <<next_user_id, contactVars, tokens, now, today, inflight, RedisClient, lookups>>

UserService_update_reset_password_token(email, token) ==
    /\ Exists(email)
    /\ LET user == Repo_update_reset_password_token(ensure_user_managed(email), token) IN
       /\ users' = [users EXCEPT ![email] = user]
       /\ IF token # NullToken
          THEN /\ cache' = invalidate_user_cache(cache, user.email)
               /\ cache_src' = invalidate_user_cache(cache_src, user.email)
          ELSE UNCHANGED cacheVars
       /\ resp' = Answer("UserService.update_reset_password_token", email, "ok",
                         None, user)
    /\ UNCHANGED <<next_user_id, contactVars, tokens, now, today, inflight, RedisClient, lookups>>

\* An update of several fields that leaves the cache as it finds it.
UserService_update_multiple_user_fields_no_put(email, fields) ==
    /\ Exists(email)
    /\ LET old == ensure_user_managed(email)
           r == Repo_update_multiple_fields(old, fields) IN
       /\ users' = IF r.committed THEN [users EXCEPT ![email] = r.user] ELSE users
       /\ UNCHANGED cacheVars
       /\ resp' = Answer("UserService.update_multiple_user_fields",
                         [email |-> email, fields |-> fields],
                         IF r.raised THEN "ValueError" ELSE "ok", r.error,
                         [before |-> old, after |-> r.user,
                          committed |-> r.committed, refreshed |-> r.refreshed])
    /\ UNCHANGED <<next_user_id, contactVars, tokens, now, today, inflight, RedisClient, lookups>>

\* UserService.update_multiple_user_fields: when the repository raises, the
\* exception leaves the method before cache_user; the object keeps whatever
\* was set on it, the row is written only by the commit.
UserService_update_multiple_user_fields(email, fields) ==
    /\ Exists(email)
    /\ LET old == ensure_user_managed(email)
           r == Repo_update_multiple_fields(old, fields) IN
       /\ users' = IF r.committed THEN [users EXCEPT ![email] = r.user] ELSE users
       /\ IF r.raised
          THEN UNCHANGED cacheVars
          ELSE /\ cache' = cache_user(cache, r.user)
               /\ cache_src' = cache_user_src(cache_src, r.user)
       /\ resp' = Answer("UserService.update_multiple_user_fields",
                         [email |-> email, fields |-> fields],
                         IF r.raised THEN "ValueError" ELSE "ok", r.error,
                         [before |-> old, after |-> r.user,
                          committed |-> r.committed, refreshed |-> r.refreshed])
    /\ UNCHANGED <<next_user_id, contactVars, tokens, now, today, inflight, RedisClient, lookups>>

\* Redis drops an entry when its ex= time is over (or under memory pressure).
CacheExpire(email) ==
    /\ email \in DOMAIN cache
    /\ cache' = Drop(cache, email)
    /\ cache_src' = Drop(cache_src, email)
    /\ resp' = Answer("cache.expire", email, "ok", None, NoOut)
    /\ UNCHANGED <<userVars, contactVars, tokens, now, today, inflight, RedisClient, lookups>>

-----------------------------------------------------------------------------
(* Token issue and verification (src/services/auth.py)                     *)

NoHash == <<"none", None>>

\* User(**user_data.model_dump()): the object built from a cache snapshot
\* has the UserModel fields and nothing else.
UserFromSnapshot(snap) ==
    [id |-> snap.id, email |-> snap.email, password_hash |-> NoHash,
     avatar_url |-> snap.avatar_url, refresh_token |-> NullToken,
     email_verified |-> snap.email_verified,
     reset_password_token |-> NullToken, role |-> snap.role]

NoUser ==
    [id |-> 0, email |-> None, password_hash |-> NoHash, avatar_url |-> None,
     refresh_token |-> NullToken, email_verified |-> FALSE,
     reset_password_token |-> NullToken, role |-> None]

\* UserService.get_user_by_email as the event loop runs it, call r: "idle"
\* -> await repository.get_user_by_email (the row as the store has it then);
\* "read" -> await cache_user of the row that was read.  Other calls may
\* run between the two.
NoLookup == [pc |-> "idle", email |-> None, row |-> NoUser]

get_user_by_email_step(r, email) ==
    LET call == lookups[r] IN
    /\ call.pc = "idle" \/ call.email = email
    /\ IF call.pc = "idle"
       THEN IF Exists(email)
            THEN /\ lookups' = [lookups EXCEPT ![r] =
                                   [pc |-> "read", email |-> email,
                                    row |-> users[email]]]
                 /\ resp' = Answer("UserService.get_user_by_email", email, "await",
                                   None, users[email])
                 /\ UNCHANGED cacheVars
            ELSE /\ resp' = Answer("UserService.get_user_by_email", email, "ok",
                                   None, None)
                 /\ UNCHANGED <<cacheVars, lookups>>
       ELSE /\ cache' = cache_user(cache, call.row)
            /\ cache_src' = cache_user_src(cache_src, call.row)
            /\ lookups' = [lookups EXCEPT ![r] = NoLookup]
            /\ resp' = Answer("UserService.get_user_by_email", email, "ok", None,
                              call.row)
    /\ UNCHANGED <<userVars, contactVars, tokens, now, today, inflight, RedisClient>>

\* A verifier that decodes the token and never looks at token_type.
token_type_unchecked(token_type, expected) == TRUE

\* payload.get("token_type") compared with the kind the caller expects.
token_type_ok(token_type, expected) == token_type = expected

\* A get_current_user that tells an expired token from the other failures.
get_current_user_telling(token) ==
    LET payload == jwt_decode(token, JWT_SECRET, now)
        denied == [ok |-> FALSE, user |-> NoUser, cache |-> cache,
                   cache_src |-> cache_src, detail |-> "Unauthorized"]
    IN  IF token.key = JWT_SECRET /\ token.exp < now
        THEN [denied EXCEPT !.detail = "Signature has expired"]
        ELSE IF ~payload.ok THEN denied
        ELSE IF payload.sub = NoSub \/ ~token_type_ok(payload.token_type, "access")
             THEN denied
        ELSE IF payload.sub \in DOMAIN cache
        THEN [ok |-> TRUE, user |-> UserFromSnapshot(cache[payload.sub]),
              cache |-> cache, cache_src |-> cache_src, detail |-> None]
        ELSE IF Exists(payload.sub)
        THEN [ok |-> TRUE, user |-> users[payload.sub],
              cache |-> cache_user(cache, users[payload.sub]),
              cache_src |-> cache_user_src(cache_src, users[payload.sub]),
              detail |-> None]
        ELSE denied

\* get_current_user: decode, require a subject and token_type "access", take
\* the user from the cache, else from the store (which caches it).  The
\* result carries the cache as the call leaves it.
get_current_user(token) ==
    LET payload == jwt_decode(token, JWT_SECRET, now)
        denied == [ok |-> FALSE, user |-> NoUser, cache |-> cache,
                   cache_src |-> cache_src, detail |-> "Unauthorized"]
    IN  IF ~payload.ok THEN denied
        ELSE IF payload.sub = NoSub \/ ~token_type_ok(payload.token_type, "access")
             THEN denied
        ELSE IF payload.sub \in DOMAIN cache
        THEN [ok |-> TRUE, user |-> UserFromSnapshot(cache[payload.sub]),
              cache |-> cache, cache_src |-> cache_src, detail |-> None]
        ELSE IF Exists(payload.sub)
        THEN [ok |-> TRUE, user |-> users[payload.sub],
              cache |-> cache_user(cache, users[payload.sub]),
              cache_src |-> cache_user_src(cache_src, users[payload.sub]),
              detail |-> None]
        ELSE denied

\* verify_refresh_token(token, db, redis_client): the user, or None.
verify_refresh_token(token) ==
    LET payload == jwt_decode(token, JWT_SECRET, now)
        none == [ok |-> FALSE, user |-> NoUser, cache |-> cache,
                 cache_src |-> cache_src]
    IN  IF ~payload.ok THEN none
        ELSE IF payload.sub = NoSub \/ ~token_type_ok(payload.token_type, "refresh")
             THEN none
        ELSE IF Exists(payload.sub)
        THEN [ok |-> TRUE, user |-> users[payload.sub],
              cache |-> cache_user(cache, users[payload.sub]),
              cache_src |-> cache_user_src(cache_src, users[payload.sub])]
        ELSE none

\* get_email_from_token: the subject, or 422 "Invalid token"; no token_type
\* is looked at.
\* The 'sub' claim read without checking signature or expiry.
get_email_from_token_unverified(token) ==
    IF token.sub = NoSub
    THEN [ok |-> FALSE, email |-> None]
    ELSE [ok |-> TRUE, email |-> token.sub]

get_email_from_token(token) ==
    LET payload == jwt_decode(token, JWT_SECRET, now)
    IN  IF ~payload.ok \/ payload.sub = NoSub
        THEN [ok |-> FALSE, email |-> None]
        ELSE [ok |-> TRUE, email |-> payload.sub]

\* A token is minted (by a signin, by the mail sender, by a test fixture).
IssueAccessToken(sub) ==
    /\ Cardinality(tokens) < MaxTokens
    /\ tokens' = tokens \cup {create_access_token(sub, now)}
    /\ resp' = Answer("create_access_token", sub, "ok", None,
                      create_access_token(sub, now))
    /\ UNCHANGED <<userVars, cacheVars, contactVars, now, today, inflight, RedisClient, lookups>>

IssueRefreshToken(sub) ==
    /\ Cardinality(tokens) < MaxTokens
    /\ tokens' = tokens \cup {create_refresh_token(sub, now)}
    /\ resp' = Answer("create_refresh_token", sub, "ok", None,
                      create_refresh_token(sub, now))
    /\ UNCHANGED <<userVars, cacheVars, contactVars, now, today, inflight, RedisClient, lookups>>

IssueEmailToken(sub) ==
    /\ Cardinality(tokens) < MaxTokens
    /\ tokens' = tokens \cup {create_email_token(sub, now)}
    /\ resp' = Answer("create_email_token", sub, "ok", None,
                      create_email_token(sub, now))
    /\ UNCHANGED <<userVars, cacheVars, contactVars, now, today, inflight, RedisClient, lookups>>

\* The dependency get_current_user resolved for a request that presents
\* `token` as its bearer token.
Authenticate(token) ==
    LET r == get_current_user(token) IN
    /\ cache' = r.cache
    /\ cache_src' = r.cache_src
    /\ resp' = Answer("get_current_user", token,
                      IF r.ok THEN "ok" ELSE "401", r.detail, r.user)
    /\ UNCHANGED <<userVars, contactVars, tokens, now, today, inflight, RedisClient, lookups>>

\* verify_refresh_token called with the token, the session and the cache.
VerifyRefresh(token) ==
    LET r == verify_refresh_token(token) IN
    /\ cache' = r.cache
    /\ cache_src' = r.cache_src
    /\ resp' = Answer("verify_refresh_token", token,
                      IF r.ok THEN "ok" ELSE "None", None, r.user)
    /\ UNCHANGED <<userVars, contactVars, tokens, now, today, inflight, RedisClient, lookups>>

\* One second passes.
Tick ==
    /\ now < MaxTime
    /\ now' = now + 1
    /\ resp' = Answer("tick", now + 1, "ok", None, NoOut)
    /\ UNCHANGED <<userVars, cacheVars, contactVars, tokens, today, inflight, RedisClient, lookups>>

-----------------------------------------------------------------------------
(* The /auth request handlers (src/api/auth.py)                            *)

\* An exception no handler catches: the generic 500.
Crash(op, arg) == Answer(op, arg, "500", "Internal Server Error", NoOut)

\* The handlers build the service as UserService(db): one argument.
AuthApiServiceArgs == 1
\* generate_access_token calls verify_refresh_token(body.refresh_token, db).
AuthApiVerifyArgs == 2
\* def verify_refresh_token(token, db, redis_client)
verify_refresh_token_params == 3

\* POST /auth/signup
signup(user_data) ==
    /\ IF ~UserService_init(AuthApiServiceArgs)
       THEN /\ resp' = Crash("signup", user_data)
            /\ UNCHANGED <<userVars, cacheVars, tokens>>
       ELSE IF Exists(user_data.email)
       THEN /\ cache' = cache_user(cache, users[user_data.email])
            /\ cache_src' = cache_user_src(cache_src, users[user_data.email])
            /\ resp' = Answer("signup", user_data, "409",
                              "User with this email already exists", NoOut)
            /\ UNCHANGED <<userVars, tokens>>
       ELSE LET body == [user_data EXCEPT
                            !.password = get_password_hash(user_data.password)]
                new_user == Repo_create_user(body, None) IN
            /\ users' = Put(users, new_user.email, new_user)
            /\ next_user_id' = next_user_id + 1
            /\ cache' = cache_user(cache, new_user)
            /\ cache_src' = cache_user_src(cache_src, new_user)
            \* the background task mails a fresh email token
            /\ tokens' = tokens \cup {create_email_token(new_user.email, now)}
            /\ resp' = Answer("signup", user_data, "201", None, UserModel(new_user))
    /\ UNCHANGED <<contactVars, now, today, inflight, RedisClient, lookups>>

\* The access token the fixture mints for a user it has stored as verified.
create_authenticated_user(email) ==
    /\ Exists(email)
    /\ users[email].email_verified
    /\ IssueAccessToken(email)

\* POST /auth/signup as the event loop runs it: request r advances from one
\* await to the next, other requests may run in between.  "idle": the
\* request arrives and the handler builds the service; "lookup": await
\* get_user_by_email; "insert": await create_user, whose commit raises
\* IntegrityError (caught nowhere) when the email is taken by then.
signup_step(r, user_data) ==
    LET req == inflight[r]
        Done(status) == [inflight EXCEPT ![r].pc = "done", ![r].status = status]
    IN
    /\ req.pc # "done"
    /\ req.pc = "idle" \/ (user_data.email = req.email /\ user_data.password = req.password)
    /\ IF req.pc = "idle"
       THEN LET begun == [pc |-> "lookup", email |-> user_data.email,
                          password |-> user_data.password,
                          fresh |-> ~Exists(user_data.email), status |-> None] IN
            IF ~UserService_init(AuthApiServiceArgs)
            THEN /\ inflight' = [inflight EXCEPT ![r] =
                                    [begun EXCEPT !.pc = "done", !.status = "500"]]
                 /\ resp' = Crash("signup", user_data)
                 /\ UNCHANGED <<userVars, cacheVars, tokens>>
            ELSE /\ inflight' = [inflight EXCEPT ![r] = begun]
                 /\ resp' = Answer("signup", user_data, "await", None, NoOut)
                 /\ UNCHANGED <<userVars, cacheVars, tokens>>
       ELSE IF req.pc = "lookup"
       THEN IF Exists(req.email)
            THEN /\ cache' = cache_user(cache, users[req.email])
                 /\ cache_src' = cache_user_src(cache_src, users[req.email])
                 /\ inflight' = Done("409")
                 /\ resp' = Answer("signup", user_data, "409",
                                   "User with this email already exists", NoOut)
                 /\ UNCHANGED <<userVars, tokens>>
            ELSE /\ inflight' = [inflight EXCEPT ![r].pc = "insert"]
                 /\ resp' = Answer("signup", user_data, "await", None, NoOut)
                 /\ UNCHANGED <<userVars, cacheVars, tokens>>
       ELSE IF Exists(req.email)
            THEN /\ inflight' = Done("500")
                 /\ resp' = Crash("signup", user_data)
                 /\ UNCHANGED <<userVars, cacheVars, tokens>>
            ELSE LET body == [user_data EXCEPT
                                 !.password = get_password_hash(user_data.password)]
                     new_user == Repo_create_user(body, None) IN
                 /\ users' = Put(users, new_user.email, new_user)
                 /\ next_user_id' = next_user_id + 1
                 /\ cache' = cache_user(cache, new_user)
                 /\ cache_src' = cache_user_src(cache_src, new_user)
                 /\ tokens' = tokens \cup {create_email_token(new_user.email, now)}
                 /\ inflight' = Done("201")
                 /\ resp' = Answer("signup", user_data, "201", None,
                                   UserModel(new_user))
    /\ UNCHANGED <<contactVars, now, today, RedisClient, lookups>>

\* A signin that asks for the password alone.
signin_any_user(form_data) ==
    /\ IF ~Exists(form_data.username)
       THEN /\ resp' = Answer("signin", form_data, "401",
                              "Incorrect email or password", NoOut)
            /\ UNCHANGED <<userVars, cacheVars, tokens>>
       ELSE LET user == users[form_data.username]
                access_token == create_access_token(user.email, now)
                refresh_token == create_refresh_token(user.email, now) IN
            /\ cache' = cache_user(cache, user)
            /\ cache_src' = cache_user_src(cache_src, user)
            /\ IF ~verify_password(form_data.password, user.password_hash)
               THEN /\ resp' = Answer("signin", form_data, "401",
                                      "Incorrect email or password", NoOut)
                    /\ UNCHANGED <<userVars, tokens>>
               ELSE /\ users' = [users EXCEPT
                                    ![user.email].refresh_token = refresh_token]
                    /\ UNCHANGED next_user_id
                    /\ tokens' = tokens \cup {access_token, refresh_token}
                    /\ resp' = Answer("signin", form_data, "200", None,
                                      [access_token |-> access_token,
                                       refresh_token |-> refresh_token,
                                       token_type |-> "bearer"])
    /\ UNCHANGED <<contactVars, now, today, inflight, RedisClient, lookups>>

\* POST /auth/signin
signin(form_data) ==
    /\ IF ~UserService_init(AuthApiServiceArgs)
       THEN /\ resp' = Crash("signin", form_data)
            /\ UNCHANGED <<userVars, cacheVars, tokens>>
       ELSE IF ~Exists(form_data.username)
       THEN /\ resp' = Answer("signin", form_data, "401",
                              "Incorrect email or password", NoOut)
            /\ UNCHANGED <<userVars, cacheVars, tokens>>
       ELSE LET user == users[form_data.username]
                access_token == create_access_token(user.email, now)
                refresh_token == create_refresh_token(user.email, now) IN
            /\ cache' = cache_user(cache, user)
            /\ cache_src' = cache_user_src(cache_src, user)
            /\ IF ~verify_password(form_data.password, user.password_hash)
               THEN /\ resp' = Answer("signin", form_data, "401",
                                      "Incorrect email or password", NoOut)
                    /\ UNCHANGED <<userVars, tokens>>
               ELSE IF user.email_verified = FALSE
               THEN /\ resp' = Answer("signin", form_data, "401",
                                      "Email is not verified", NoOut)
                    /\ UNCHANGED <<userVars, tokens>>
               ELSE /\ users' = [users EXCEPT
                                    ![user.email].refresh_token = refresh_token]
                    /\ UNCHANGED next_user_id
                    /\ tokens' = tokens \cup {access_token, refresh_token}
                    /\ resp' = Answer("signin", form_data, "200", None,
                                      [access_token |-> access_token,
                                       refresh_token |-> refresh_token,
                                       token_type |-> "bearer"])
    /\ UNCHANGED <<contactVars, now, today, inflight, RedisClient, lookups>>

\* POST /auth/refresh
generate_access_token(body) ==
    /\ IF AuthApiVerifyArgs # verify_refresh_token_params
       THEN /\ resp' = Crash("refresh", body)
            /\ UNCHANGED <<cacheVars, tokens>>
       ELSE LET r == verify_refresh_token(body.refresh_token) IN
            /\ cache' = r.cache
            /\ cache_src' = r.cache_src
            /\ IF ~r.ok
               THEN /\ resp' = Answer("refresh", body, "401", "Unauthorized", NoOut)
                    /\ UNCHANGED tokens
               ELSE /\ tokens' = tokens \cup {create_access_token(r.user.email, now)}
                    /\ resp' = Answer("refresh", body, "200", None,
                                      [access_token |->
                                           create_access_token(r.user.email, now),
                                       refresh_token |-> body.refresh_token,
                                       token_type |-> "bearer"])
    /\ UNCHANGED <<userVars, contactVars, now, today, inflight, RedisClient, lookups>>

\* GET /auth/confirm-email/{token}
confirm_email(token) ==
    LET e == get_email_from_token(token) IN
    /\ IF ~e.ok
       THEN /\ resp' = Answer("confirm_email", token, "422", "Invalid token", NoOut)
            /\ UNCHANGED <<userVars, cacheVars>>
       ELSE IF ~UserService_init(AuthApiServiceArgs)
       THEN /\ resp' = Crash("confirm_email", token)
            /\ UNCHANGED <<userVars, cacheVars>>
       ELSE IF ~Exists(e.email)
       THEN /\ resp' = Answer("confirm_email", token, "400", "Invalid token", NoOut)
            /\ UNCHANGED <<userVars, cacheVars>>
       ELSE IF users[e.email].email_verified
       THEN /\ cache' = cache_user(cache, users[e.email])
            /\ cache_src' = cache_user_src(cache_src, users[e.email])
            /\ resp' = Answer("confirm_email", token, "200",
                              "Email is already verified.", NoOut)
            /\ UNCHANGED userVars
       ELSE LET user == Repo_set_email_verified(ensure_user_managed(e.email)) IN
            /\ users' = [users EXCEPT ![e.email] = user]
            /\ UNCHANGED next_user_id
            /\ cache' = cache_user(cache, user)
            /\ cache_src' = cache_user_src(cache_src, user)
            /\ resp' = Answer("confirm_email", token, "200",
                              "Email verified successfully.", NoOut)
    /\ UNCHANGED <<contactVars, tokens, now, today, inflight, RedisClient, lookups>>

\* A reset request that mints a token whether or not one is outstanding.
request_rest_password_overwrite(body) ==
    /\ IF ~Exists(body.email)
       THEN /\ resp' = Answer("request_rest_password", body, "200",
                  "Reset password email has been sent to your email address.",
                  [mailed |-> FALSE])
            /\ UNCHANGED <<userVars, cacheVars, tokens>>
       ELSE LET minted == create_email_token(body.email, now)
                user == Repo_update_reset_password_token(
                            ensure_user_managed(body.email), minted)
            IN
            /\ users' = [users EXCEPT ![body.email] = user]
            /\ UNCHANGED next_user_id
            /\ cache' = invalidate_user_cache(cache, user.email)
            /\ cache_src' = invalidate_user_cache(cache_src, user.email)
            /\ tokens' = tokens \cup {minted}
            /\ resp' = Answer("request_rest_password", body, "200",
                  "Reset password email has been sent to your email address.",
                  [mailed |-> user.email_verified])
    /\ UNCHANGED <<contactVars, now, today, inflight, RedisClient, lookups>>

\* GET /auth/request-reset-password.  `mailed` tells whether the handler
\* scheduled send_reset_password_email.
request_rest_password(body) ==
    /\ IF ~UserService_init(AuthApiServiceArgs)
       THEN /\ resp' = Crash("request_rest_password", body)
            /\ UNCHANGED <<userVars, cacheVars, tokens>>
       ELSE IF ~Exists(body.email)
       THEN /\ resp' = Answer("request_rest_password", body, "200",
                  "Reset password email has been sent to your email address.",
                  [mailed |-> FALSE])
            /\ UNCHANGED <<userVars, cacheVars, tokens>>
       ELSE LET found == users[body.email]
                minted == create_email_token(found.email, now)
                user == IF found.reset_password_token = NullToken
                        THEN Repo_update_reset_password_token(
                                 ensure_user_managed(found.email), minted)
                        ELSE found
            IN
            /\ users' = [users EXCEPT ![body.email] = user]
            /\ UNCHANGED next_user_id
            /\ IF found.reset_password_token = NullToken
               THEN /\ cache' = invalidate_user_cache(cache, user.email)
                    /\ cache_src' = invalidate_user_cache(cache_src, user.email)
                    /\ tokens' = tokens \cup {minted}
               ELSE /\ cache' = cache_user(cache, found)
                    /\ cache_src' = cache_user_src(cache_src, found)
                    /\ UNCHANGED tokens
            /\ resp' = Answer("request_rest_password", body, "200",
                  "Reset password email has been sent to your email address.",
                  [mailed |-> user.email_verified
                                /\ user.reset_password_token # NullToken])
    /\ UNCHANGED <<contactVars, now, today, inflight, RedisClient, lookups>>

\* A reset that never compares the token with the stored one.
reset_password_unchecked(token, new_password) ==
    LET e == get_email_from_token(token)
        arg == [token |-> token, new_password |-> new_password] IN
    /\ IF ~e.ok \/ ~Exists(e.email)
       THEN /\ resp' = Answer("reset_password", arg, "422", "Invalid token", NoOut)
            /\ UNCHANGED <<userVars, cacheVars>>
       ELSE LET r == Repo_update_multiple_fields(
                         ensure_user_managed(e.email),
                         [password_hash |-> get_password_hash(new_password),
                          reset_password_token |-> NullToken])
            IN
            /\ users' = [users EXCEPT ![e.email] = r.user]
            /\ UNCHANGED next_user_id
            /\ cache' = cache_user(cache, r.user)
            /\ cache_src' = cache_user_src(cache_src, r.user)
            /\ resp' = Answer("reset_password", arg, "200",
                              "Password has been reset successfully.", NoOut)
    /\ UNCHANGED <<contactVars, tokens, now, today, inflight, RedisClient, lookups>>

\* POST /auth/reset-password/{token}
reset_password(token, new_password) ==
    LET e == get_email_from_token(token)
        arg == [token |-> token, new_password |-> new_password] IN
    /\ IF ~e.ok
       THEN /\ resp' = Answer("reset_password", arg, "422", "Invalid token", NoOut)
            /\ UNCHANGED <<userVars, cacheVars>>
       ELSE IF ~UserService_init(AuthApiServiceArgs)
       THEN /\ resp' = Crash("reset_password", arg)
            /\ UNCHANGED <<userVars, cacheVars>>
       ELSE IF ~Exists(e.email)
       THEN /\ resp' = Answer("reset_password", arg, "400", "Invalid token", NoOut)
            /\ UNCHANGED <<userVars, cacheVars>>
       ELSE LET user == users[e.email]
                r == Repo_update_multiple_fields(
                         ensure_user_managed(e.email),
                         [password_hash |-> get_password_hash(new_password),
                          reset_password_token |-> NullToken])
            IN
            IF user.reset_password_token # token
            THEN /\ cache' = cache_user(cache, user)
                 /\ cache_src' = cache_user_src(cache_src, user)
                 /\ resp' = Answer("reset_password", arg, "400", "Invalid token",
                                   NoOut)
                 /\ UNCHANGED userVars
            ELSE IF verify_password(new_password, user.password_hash)
            THEN /\ cache' = cache_user(cache, user)
                 /\ cache_src' = cache_user_src(cache_src, user)
                 /\ resp' = Answer("reset_password", arg, "400",
                       "New password must be different from the old password.",
                       NoOut)
                 /\ UNCHANGED userVars
            ELSE /\ users' = [users EXCEPT ![e.email] = r.user]
                 /\ UNCHANGED next_user_id
                 /\ cache' = cache_user(cache, r.user)
                 /\ cache_src' = cache_user_src(cache_src, r.user)
                 /\ resp' = Answer("reset_password", arg, "200",
                                   "Password has been reset successfully.", NoOut)
    /\ UNCHANGED <<contactVars, tokens, now, today, inflight, RedisClient, lookups>>

-----------------------------------------------------------------------------
(* Calendar: datetime.date and timedelta.  A day number counts the days    *)
(* since 1 January of EpochYear.                                           *)

EpochYear == 2023

IsLeap(y) == (y % 4 = 0 /\ y % 100 # 0) \/ y % 400 = 0
YearLen(y) == IF IsLeap(y) THEN 366 ELSE 365
MonthLen(y, m) ==
    IF m = 2 THEN (IF IsLeap(y) THEN 29 ELSE 28)
    ELSE IF m \in {4, 6, 9, 11} THEN 30 ELSE 31

RECURSIVE MonthDay(_, _, _)
MonthDay(y, m, n) ==
    IF n < MonthLen(y, m) THEN [y |-> y, m |-> m, d |-> n + 1]
    ELSE MonthDay(y, m + 1, n - MonthLen(y, m))

RECURSIVE DateFrom(_, _)
DateFrom(y, n) ==
    IF n < YearLen(y) THEN MonthDay(y, 1, n) ELSE DateFrom(y + 1, n - YearLen(y))

\* The date of a day number.
DateOf(n) == DateFrom(EpochYear, n)

NoDate == [y |-> 0, m |-> 0, d |-> 0]

-----------------------------------------------------------------------------
(* The contacts table (src/database/models.py) and ContactRepository       *)

Owned(user) == {c \in contacts : c.user_id = user.id}

\* Constraints on email and on phone alone, without the owner column.
ViolatedConstraints_no_owner(row, others) ==
    (IF \E c \in others : c.email = row.email
     THEN {"uq_contact_email_user"} ELSE {})
    \cup
    (IF \E c \in others : c.phone = row.phone
     THEN {"uq_contact_phone_user"} ELSE {})

\* UniqueConstraint("email", "user_id", name="uq_contact_email_user") and
\* UniqueConstraint("phone", "user_id", name="uq_contact_phone_user"): the
\* constraints a row would violate against the other rows of the table.
ViolatedConstraints(row, others) ==
    (IF \E c \in others : c.email = row.email /\ c.user_id = row.user_id
     THEN {"uq_contact_email_user"} ELSE {})
    \cup
    (IF \E c \in others : c.phone = row.phone /\ c.user_id = row.user_id
     THEN {"uq_contact_phone_user"} ELSE {})

\* A lookup by id alone.
Repo_get_contact_any_owner(user, contact_id) ==
    {c \in contacts : c.id = contact_id}

\* ContactRepository.get_contact(user, contact_id): the caller's row with
\* that id, if any.
Repo_get_contact(user, contact_id) ==
    {c \in contacts : c.id = contact_id /\ c.user_id = user.id}

\* ContactRepository.get_contacts(user, skip, limit, filter): the caller's
\* rows that pass the filter, in id order, from `skip`, at most `limit`.
RECURSIVE ById(_)
ById(S) ==
    IF S = {} THEN <<>>
    ELSE LET c == CHOOSE x \in S : \A z \in S : x.id <= z.id
         IN  <<c>> \o ById(S \ {c})

Repo_get_contacts(user, skip, limit, email_filter) ==
    LET rows == ById({c \in Owned(user) :
                        email_filter = None \/ c.email = email_filter})
    IN  SubSeq(rows, skip + 1, IF skip + limit < Len(rows) THEN skip + limit
                                ELSE Len(rows))

\* ContactRepository.create_contact(user, body): the row to insert.
Repo_create_contact(user, body) ==
    [id |-> next_contact_id, user_id |-> user.id, email |-> body.email,
     phone |-> body.phone, birthday |-> body.birthday]

\* ContactRepository.update_contact: the fields the PATCH body sets.
Repo_update_contact(row, body) ==
    [f \in DOMAIN row |-> IF f \in DOMAIN body THEN body[f] ELSE row[f]]

\* The month and day of a date, and their order within a year.
MD(date) == <<date.m, date.d>>
MDLeq(a, b) == a[1] < b[1] \/ (a[1] = b[1] /\ a[2] <= b[2])

\* ContactRepository.get_contacts_with_birthday_in_period(user, start, end):
\* the caller's contacts whose birthday's month and day lie between those of
\* start and end, the range running over the year's end when end's month
\* and day come before start's.
Repo_get_contacts_with_birthday_in_period(user, start_date, end_date) ==
    {c \in Owned(user) :
        /\ c.birthday # NoDate
        /\ IF MDLeq(MD(start_date), MD(end_date))
           THEN MDLeq(MD(start_date), MD(c.birthday))
                /\ MDLeq(MD(c.birthday), MD(end_date))
           ELSE MDLeq(MD(start_date), MD(c.birthday))
                \/ MDLeq(MD(c.birthday), MD(end_date))}

-----------------------------------------------------------------------------
(* ContactService (src/services/contacts.py)                               *)

\* get_contacts: skip = show * (page - 1), limit = show.
ContactService_get_contacts(user, page, show, email_filter) ==
    Repo_get_contacts(user, show * (page - 1), show, email_filter)

\* A period that stops one day early.
BirthdayPeriod_short(days_ahead) ==
    [start |-> DateOf(today), end |-> DateOf(today + days_ahead - 1)]

\* get_upcoming_birthdays: the period is [today, today + days_ahead].
BirthdayPeriod(days_ahead) ==
    [start |-> DateOf(today), end |-> DateOf(today + days_ahead)]

ContactService_get_upcoming_birthdays(user, days_ahead) ==
    Repo_get_contacts_with_birthday_in_period(
        user, BirthdayPeriod(days_ahead).start, BirthdayPeriod(days_ahead).end)

-----------------------------------------------------------------------------
(* The /contacts request handlers (src/api/contacts.py).  Each resolves    *)
(* the caller with get_current_user before its body runs.                  *)

Denied(op, arg) == Answer(op, arg, "401", "Unauthorized", NoOut)

NotFound(op, arg) == Answer(op, arg, "404", "Contact not found", NoOut)

\* GET /contacts
get_contacts(token, page, show, email_filter) ==
    LET a == get_current_user(token)
        arg == [token |-> token, caller |-> a.user.id, page |-> page, show |-> show,
                email |-> email_filter] IN
    /\ cache' = a.cache
    /\ cache_src' = a.cache_src
    /\ resp' = IF ~a.ok THEN Denied("get_contacts", arg)
               ELSE Answer("get_contacts", arg, "200", None,
                           ContactService_get_contacts(a.user, page, show,
                                                       email_filter))
    /\ UNCHANGED <<userVars, contactVars, tokens, now, today, inflight, RedisClient, lookups>>

\* GET /contacts/{contact_id}
get_contact(token, contact_id) ==
    LET a == get_current_user(token)
        arg == [token |-> token, caller |-> a.user.id, contact_id |-> contact_id]
        found == Repo_get_contact(a.user, contact_id) IN
    /\ cache' = a.cache
    /\ cache_src' = a.cache_src
    /\ resp' = IF ~a.ok THEN Denied("get_contact", arg)
               ELSE IF found = {} THEN NotFound("get_contact", arg)
               ELSE Answer("get_contact", arg, "200", None,
                           CHOOSE c \in found : TRUE)
    /\ UNCHANGED <<userVars, contactVars, tokens, now, today, inflight, RedisClient, lookups>>

\* The except IntegrityError branch of create_contact: the answer for the
\* constraint the database names.
create_contact_error(orig) ==
    IF orig = "uq_contact_email_user"
    THEN [status |-> "409", detail |-> "Contact with this email already exists"]
    ELSE IF orig = "uq_contact_phone_user"
    THEN [status |-> "409",
          detail |-> "Contact with this phone number already exists"]
    ELSE [status |-> "400", detail |-> "Could not create contact"]

\* POST /contacts
create_contact(token, contact) ==
    LET a == get_current_user(token)
        arg == [token |-> token, caller |-> a.user.id, contact |-> contact]
        row == Repo_create_contact(a.user, contact)
        bad == ViolatedConstraints(row, contacts) IN
    /\ (a.ok /\ bad = {}) => next_contact_id <= MaxContacts
    /\ cache' = a.cache
    /\ cache_src' = a.cache_src
    /\ IF ~a.ok
       THEN /\ resp' = Denied("create_contact", arg)
            /\ UNCHANGED contactVars
       ELSE IF bad = {}
       THEN /\ contacts' = contacts \cup {row}
            /\ next_contact_id' = next_contact_id + 1
            /\ resp' = Answer("create_contact", arg, "201", None, row)
       ELSE \E orig \in bad :
            /\ resp' = Answer("create_contact", arg,
                              create_contact_error(orig).status,
                              create_contact_error(orig).detail, NoOut)
            /\ UNCHANGED contactVars
    /\ UNCHANGED <<userVars, tokens, now, today, inflight, RedisClient, lookups>>

\* PATCH /contacts/{contact_id}: the handler catches nothing, an
\* IntegrityError of the commit leaves it as the generic 500.
update_contact(token, contact_id, contact) ==
    LET a == get_current_user(token)
        arg == [token |-> token, caller |-> a.user.id, contact_id |-> contact_id,
                contact |-> contact]
        found == Repo_get_contact(a.user, contact_id) IN
    /\ cache' = a.cache
    /\ cache_src' = a.cache_src
    /\ IF ~a.ok
       THEN /\ resp' = Denied("update_contact", arg)
            /\ UNCHANGED contactVars
       ELSE IF found = {}
       THEN /\ resp' = NotFound("update_contact", arg)
            /\ UNCHANGED contactVars
       ELSE LET row == CHOOSE c \in found : TRUE
                new == Repo_update_contact(row, contact) IN
            IF ViolatedConstraints(new, contacts \ {row}) # {}
            THEN /\ resp' = Crash("update_contact", arg)
                 /\ UNCHANGED contactVars
            ELSE /\ contacts' = (contacts \ {row}) \cup {new}
                 /\ UNCHANGED next_contact_id
                 /\ resp' = Answer("update_contact", arg, "200", None, new)
    /\ UNCHANGED <<userVars, tokens, now, today, inflight, RedisClient, lookups>>

\* DELETE /contacts/{contact_id}
delete_contact(token, contact_id) ==
    LET a == get_current_user(token)
        arg == [token |-> token, caller |-> a.user.id, contact_id |-> contact_id]
        found == Repo_get_contact(a.user, contact_id) IN
    /\ cache' = a.cache
    /\ cache_src' = a.cache_src
    /\ IF ~a.ok
       THEN /\ resp' = Denied("delete_contact", arg)
            /\ UNCHANGED contactVars
       ELSE IF found = {}
       THEN /\ resp' = NotFound("delete_contact", arg)
            /\ UNCHANGED contactVars
       ELSE /\ contacts' = contacts \ found
            /\ UNCHANGED next_contact_id
            /\ resp' = Answer("delete_contact", arg, "204", None, NoOut)
    /\ UNCHANGED <<userVars, tokens, now, today, inflight, RedisClient, lookups>>

\* GET /contacts/birthdays/upcoming
get_upcoming_birthdays(token, days_ahead) ==
    LET a == get_current_user(token)
        arg == [token |-> token, caller |-> a.user.id, days_ahead |-> days_ahead,
                today |-> today] IN
    /\ cache' = a.cache
    /\ cache_src' = a.cache_src
    /\ resp' = IF ~a.ok THEN Denied("get_upcoming_birthdays", arg)
               ELSE Answer("get_upcoming_birthdays", arg, "200", None,
                           ContactService_get_upcoming_birthdays(a.user,
                                                                 days_ahead))
    /\ UNCHANGED <<userVars, contactVars, tokens, now, today, inflight, RedisClient, lookups>>

\* Midnight passes.
NextDay(days) ==
    /\ today + 1 \in days
    /\ today' = today + 1
    /\ resp' = Answer("midnight", today + 1, "ok", None, NoOut)
    /\ UNCHANGED <<userVars, cacheVars, contactVars, tokens, now, inflight, RedisClient, lookups>>

-----------------------------------------------------------------------------
(* The test fixture create_authenticated_user (tests/integration/conftest.py): *)
(* a verified user inserted straight into the table, and an access token   *)
(* for it.  The cache is not touched.                                      *)

FixtureUser(email, password, id) ==
    [id |-> id, email |-> email, password_hash |-> get_password_hash(password),
     avatar_url |-> None, refresh_token |-> NullToken, email_verified |-> TRUE,
     reset_password_token |-> NullToken, role |-> USER]

TokenA == create_access_token("a@x.io", 0)
TokenB == create_access_token("b@x.io", 0)

-----------------------------------------------------------------------------
(* RedisClient (src/database/redis.py).  A coroutine runs without          *)
(* interruption up to an await; at the await other coroutines may run.     *)

MaxClients == 3

\* cls._instance = None
NoInstance == 0

\* RedisClient.get_client, call r: "idle" -> test `cls._instance is None`;
\* when it is, the call waits in `await aioredis.from_url(...)` ("creating")
\* and on resumption assigns the client made to cls._instance; then it
\* returns cls._instance.
RedisClient_get_client(r) ==
    LET call == RedisClient.calls[r] IN
    /\ call.pc \in {"idle", "creating"}
    /\ IF call.pc = "idle"
       THEN IF RedisClient.instance = NoInstance
            THEN /\ RedisClient.made < MaxClients
                 /\ RedisClient' = [RedisClient EXCEPT !.calls[r].pc = "creating"]
                 /\ resp' = Answer("RedisClient.get_client", r, "await", None, NoOut)
            ELSE /\ RedisClient' = [RedisClient EXCEPT
                                       !.calls[r].got = RedisClient.instance]
                 /\ resp' = Answer("RedisClient.get_client", r, "ok", None,
                                   [client |-> RedisClient.instance,
                                    live |-> RedisClient.live])
       ELSE /\ RedisClient' = [RedisClient EXCEPT
                                  !.instance = RedisClient.made + 1,
                                  !.made = RedisClient.made + 1,
                                  !.live = RedisClient.live + 1,
                                  !.calls[r] = [pc |-> "idle",
                                                got |-> RedisClient.made + 1]]
            /\ resp' = Answer("RedisClient.get_client", r, "ok", None,
                              [client |-> RedisClient.made + 1,
                               live |-> RedisClient.live + 1])
    /\ UNCHANGED <<userVars, cacheVars, contactVars, tokens, now, today, inflight,
                   lookups>>

\* RedisClient.close, call r: when there is an instance the call waits in
\* `await cls._instance.close()` ("closing") and on resumption sets
\* cls._instance to None.
RedisClient_close(r) ==
    LET call == RedisClient.calls[r] IN
    /\ call.pc \in {"idle", "closing"}
    /\ IF call.pc = "idle"
       THEN IF RedisClient.instance = NoInstance
            THEN /\ RedisClient' = [RedisClient EXCEPT !.calls[r].got = NoInstance]
                 /\ resp' = Answer("RedisClient.close", r, "ok", None, NoOut)
            ELSE /\ RedisClient' = [RedisClient EXCEPT !.calls[r].pc = "closing"]
                 /\ resp' = Answer("RedisClient.close", r, "await", None, NoOut)
       ELSE /\ RedisClient' = [RedisClient EXCEPT
                                  !.instance = NoInstance, !.live = 0,
                                  !.calls[r] = [pc |-> "idle", got |-> NoInstance]]
            /\ resp' = Answer("RedisClient.close", r, "ok", None, NoOut)
    /\ UNCHANGED <<userVars, cacheVars, contactVars, tokens, now, today, inflight,
                   lookups>>

-----------------------------------------------------------------------------
(* The /users handlers (src/api/users.py)                                  *)

\* A dependency that lets every authenticated user through.
get_current_admin_user_any_role(token) ==
    LET a == get_current_user(token) IN
    [ok |-> a.ok, status |-> IF a.ok THEN "200" ELSE "401",
     detail |-> IF a.ok THEN None ELSE "Unauthorized",
     user |-> a.user, cache |-> a.cache, cache_src |-> a.cache_src]

\* get_current_admin_user: the user get_current_user yields (401 when it
\* yields none), refused with 403 unless the role is ADMIN.
get_current_admin_user(token) ==
    LET a == get_current_user(token) IN
    IF ~a.ok
    THEN [ok |-> FALSE, status |-> "401", detail |-> "Unauthorized",
          user |-> a.user, cache |-> a.cache, cache_src |-> a.cache_src]
    ELSE IF a.user.role # ADMIN
    THEN [ok |-> FALSE, status |-> "403", detail |-> "Insufficient permissions",
          user |-> a.user, cache |-> a.cache, cache_src |-> a.cache_src]
    ELSE [ok |-> TRUE, status |-> "200", detail |-> None,
          user |-> a.user, cache |-> a.cache, cache_src |-> a.cache_src]

\* What CloudinaryService.upload_file may do: return the URL of the stored
\* image, or raise.
UploadFailed == "UploadFailed"
UploadedUrls == {"https://res.cloudinary.com/v1", "https://res.cloudinary.com/v2"}
UploadOutcomes == UploadedUrls \cup {UploadFailed}

\* GET /users/me
get_current_user_info(token) ==
    LET a == get_current_user(token) IN
    /\ cache' = a.cache
    /\ cache_src' = a.cache_src
    /\ resp' = IF a.ok
               THEN Answer("get_current_user_info", [token |-> token], "200", None,
                           UserModel(a.user))
               ELSE Denied("get_current_user_info", [token |-> token])
    /\ UNCHANGED <<userVars, contactVars, tokens, now, today, inflight, RedisClient, lookups>>

\* An avatar update that writes the store before it knows what the upload
\* did.
update_user_avatar_write_first(token, outcome) ==
    LET a == get_current_admin_user(token)
        arg == [token |-> token, outcome |-> outcome,
                caller |-> UserModel(a.user)] IN
    /\ IF ~a.ok
       THEN /\ cache' = a.cache
            /\ cache_src' = a.cache_src
            /\ resp' = Answer("update_user_avatar", arg, a.status, a.detail,
                              [uploaded |-> FALSE, user |-> None])
            /\ UNCHANGED userVars
       ELSE LET user == Repo_update_user_avatar(
                            ensure_user_managed(a.user.email),
                            IF outcome = UploadFailed THEN None ELSE outcome) IN
            /\ users' = [users EXCEPT ![user.email] = user]
            /\ UNCHANGED next_user_id
            /\ cache' = cache_user(a.cache, user)
            /\ cache_src' = cache_user_src(a.cache_src, user)
            /\ resp' = Answer("update_user_avatar", arg,
                              IF outcome = UploadFailed THEN "500" ELSE "200",
                              None, [uploaded |-> TRUE, user |-> UserModel(user)])
    /\ UNCHANGED <<contactVars, tokens, now, today, inflight, RedisClient, lookups>>

\* PATCH /users/avatar.  `outcome` is what the upload does if it is made;
\* `uploaded` in the answer tells whether upload_file was called, `caller`
\* is the user object the dependency handed to the handler.
update_user_avatar(token, outcome) ==
    LET a == get_current_admin_user(token)
        arg == [token |-> token, outcome |-> outcome,
                caller |-> UserModel(a.user)] IN
    /\ IF ~a.ok
       THEN /\ cache' = a.cache
            /\ cache_src' = a.cache_src
            /\ resp' = Answer("update_user_avatar", arg, a.status, a.detail,
                              [uploaded |-> FALSE, user |-> None])
            /\ UNCHANGED userVars
       ELSE IF outcome = UploadFailed
       THEN /\ cache' = a.cache
            /\ cache_src' = a.cache_src
            /\ resp' = Answer("update_user_avatar", arg, "500",
                              "Failed to upload avatar",
                              [uploaded |-> TRUE, user |-> None])
            /\ UNCHANGED userVars
       ELSE LET user == Repo_update_user_avatar(
                            ensure_user_managed(a.user.email), outcome) IN
            /\ users' = [users EXCEPT ![user.email] = user]
            /\ UNCHANGED next_user_id
            /\ cache' = cache_user(a.cache, user)
            /\ cache_src' = cache_user_src(a.cache_src, user)
            /\ resp' = Answer("update_user_avatar", arg, "200", None,
                              [uploaded |-> TRUE, user |-> UserModel(user)])
    /\ UNCHANGED <<contactVars, tokens, now, today, inflight, RedisClient, lookups>>

-----------------------------------------------------------------------------
(* Initial states *)

EmptyMap == [x \in {} |-> None]

\* The requests that may be under way at once, none of them begun.
Requests == {"r1", "r2"}
IdleRequest == [pc |-> "idle", email |-> None, password |-> None,
                fresh |-> FALSE, status |-> None]

\* The class as the import leaves it: _instance is None (0), no client has
\* been made, no call is under way.  `made` counts the clients ever made,
\* `live` those made since the process started or close last finished.
RedisClientLoaded ==
    [instance |-> NoInstance, made |-> 0, live |-> 0,
     calls |-> [r \in Requests |-> [pc |-> "idle", got |-> NoInstance]]]

\* Day numbers of 26 February and 28 December of EpochYear, and of
\* 26 February of the year after.
StartDays == {56, 361, 421}

Days == UNION {d .. d + MaxDay : d \in StartDays}

Init ==
    /\ users = EmptyMap
    /\ next_user_id = 1
    /\ cache = EmptyMap
    /\ cache_src = EmptyMap
    /\ contacts = {}
    /\ next_contact_id = 1
    /\ tokens = {}
    /\ now = 0
    /\ today = 361
    /\ resp = Answer("init", None, "ok", None, NoOut)
    /\ inflight = [r \in Requests |-> IdleRequest]
    /\ RedisClient = RedisClientLoaded
    /\ lookups = [r \in Requests |-> NoLookup]

\* Two users made by the fixture, each holding an access token.
InitFixture ==
    /\ users = [e \in Emails |->
                  FixtureUser(e, "pw1", IF e = "a@x.io" THEN 1 ELSE 2)]
    /\ next_user_id = 3
    /\ cache = EmptyMap
    /\ cache_src = EmptyMap
    /\ contacts = {}
    /\ next_contact_id = 1
    /\ tokens = {TokenA, TokenB}
    /\ now = 0
    /\ today \in StartDays
    /\ resp = Answer("init", None, "ok", None, NoOut)
    /\ inflight = [r \in Requests |-> IdleRequest]
    /\ RedisClient = RedisClientLoaded
    /\ lookups = [r \in Requests |-> NoLookup]

\* The fixture's two users, the first of them an administrator, each with
\* an access token; the administrator also holds a refresh token.
RefreshA == create_refresh_token("a@x.io", 0)

InitAvatar ==
    /\ users = [e \in Emails |->
                  IF e = "a@x.io"
                  THEN [FixtureUser(e, "pw1", 1) EXCEPT !.role = ADMIN]
                  ELSE FixtureUser(e, "pw1", 2)]
    /\ next_user_id = 3
    /\ cache = EmptyMap
    /\ cache_src = EmptyMap
    /\ contacts = {}
    /\ next_contact_id = 1
    /\ tokens = {TokenA, TokenB, RefreshA}
    /\ now = 0
    /\ today = 361
    /\ resp = Answer("init", None, "ok", None, NoOut)
    /\ inflight = [r \in Requests |-> IdleRequest]
    /\ RedisClient = RedisClientLoaded
    /\ lookups = [r \in Requests |-> NoLookup]

\* An administrator whose email is not verified yet, and a verified plain
\* user with an access token.
InitHandlers ==
    /\ users = [e \in Emails |->
                  IF e = "a@x.io"
                  THEN [FixtureUser(e, "pw1", 1) EXCEPT !.role = ADMIN,
                                                       !.email_verified = FALSE]
                  ELSE FixtureUser(e, "pw1", 2)]
    /\ next_user_id = 3
    /\ cache = EmptyMap
    /\ cache_src = EmptyMap
    /\ contacts = {}
    /\ next_contact_id = 1
    /\ tokens = {TokenB}
    /\ now = 0
    /\ today = 361
    /\ resp = Answer("init", None, "ok", None, NoOut)
    /\ inflight = [r \in Requests |-> IdleRequest]
    /\ RedisClient = RedisClientLoaded
    /\ lookups = [r \in Requests |-> NoLookup]

-----------------------------------------------------------------------------
(* Inputs *)

UserCreateBodies ==
    {[email |-> e, password |-> get_password_hash("pw1"), role |-> None] :
        e \in Emails}

SignupPayloads ==
    {[email |-> e, password |-> "pw1", role |-> r] :
        e \in Emails, r \in {None, ADMIN}}

SigninForms == {[username |-> e, password |-> p] : e \in Emails, p \in Passwords}

Hashes == {get_password_hash(p) : p \in Passwords}

FieldNames == UPDATABLE_FIELDS \cup {"role", "id", "email", "invalid_field"}

FieldValue(name) ==
    CASE name = "password_hash" -> get_password_hash("pw2")
      [] name = "avatar_url" -> "https://img/1"
      [] name = "email_verified" -> TRUE
      [] name = "reset_password_token" -> NullToken
      [] name = "role" -> ADMIN
      [] name = "id" -> 999
      [] name = "email" -> "new@x.io"
      [] OTHER -> "value"

\* The keyword arguments of a call: no field, one field, an allowed field
\* together with a refused one, and the pair reset_password sends.
FieldSets ==
    {{}} \cup {{n} : n \in FieldNames}
         \cup {{a, p} : a \in {"password_hash", "avatar_url"},
                        p \in {"role", "invalid_field"}}
         \cup {{"password_hash", "reset_password_token"}}

FieldMaps == {[n \in S |-> FieldValue(n)] : S \in FieldSets}

Subjects == {"a@x.io", NoSub}

Callers == {TokenA, TokenB, MalformedToken}

ContactBodies ==
    {[email |-> e, phone |-> p, birthday |-> NoDate] :
        e \in ContactEmails, p \in Phones}

ContactUpdates ==
    {[f \in {} |-> None], [email |-> "c2@y.io"], [phone |-> "+3802"],
     [email |-> "c1@y.io", phone |-> "+3801"]}

ContactIds == 1 .. MaxContacts + 1

\* 31 December, 28 November, 2 January, 29 February, 1 March.
Birthdays ==
    {[y |-> 1990, m |-> 12, d |-> 31], [y |-> 1985, m |-> 11, d |-> 28],
     [y |-> 2001, m |-> 1, d |-> 2], [y |-> 1992, m |-> 2, d |-> 29],
     [y |-> 1990, m |-> 3, d |-> 1]}

BirthdayBodies ==
    {[email |-> "c1@y.io", phone |-> "+3801", birthday |-> b] : b \in Birthdays}
    \cup {[email |-> "c2@y.io", phone |-> "+3802", birthday |-> b] :
            b \in {[y |-> 1985, m |-> 11, d |-> 28], NoDate}}

DaysAheadChoices == {0, 3, MaxDaysAhead}

-----------------------------------------------------------------------------
(* UserRepository.update_multiple_fields through the service *)

NextFields ==
    \/ UserService_create_user(
          [email |-> "a@x.io", password |-> get_password_hash("pw1"),
           role |-> None])
    \/ \E e \in Emails, fields \in FieldMaps :
          UserService_update_multiple_user_fields(e, fields)

SpecFields == Init /\ [][NextFields]_vars

(* The user service with its cache *)

NextCache ==
    \/ \E body \in UserCreateBodies : UserService_create_user(body)
    \/ \E e \in Emails : UserService_get_user_by_email(e)
    \/ \E e \in Emails : UserService_get_cached_user_by_email(e)
    \/ \E e \in Emails : UserService_confirm_user_email(e)
    \/ \E tok \in {NullToken, create_email_token("a@x.io", now)} :
          UserService_update_reset_password_token("a@x.io", tok)
    \/ \E e \in Emails, url \in AvatarUrls : UserService_update_avatar(e, url)
    \/ \E e \in Emails, h \in Hashes : UserService_update_user_password(e, h)
    \/ \E e \in Emails : CacheExpire(e)

SpecCache == Init /\ [][NextCache]_vars

(* The operations that write a password hash *)

PasswordFieldMaps ==
    {[password_hash |-> h] : h \in Hashes}
    \cup {[password_hash |-> h, reset_password_token |-> NullToken] : h \in Hashes}

NextPasswordCache ==
    \/ \E body \in UserCreateBodies : UserService_create_user(body)
    \/ \E e \in Emails : UserService_get_user_by_email(e)
    \/ \E e \in Emails, h \in Hashes : UserService_update_user_password(e, h)
    \/ \E e \in Emails, fields \in PasswordFieldMaps :
          UserService_update_multiple_user_fields(e, fields)
    \/ \E e \in Emails : CacheExpire(e)

SpecPasswordCache == Init /\ [][NextPasswordCache]_vars

(* Lookups that overlap a password update *)

NextLookupRace ==
    \/ \E body \in UserCreateBodies : UserService_create_user(body)
    \/ \E r \in Requests, e \in Emails : get_user_by_email_step(r, e)
    \/ \E e \in Emails : UserService_get_cached_user_by_email(e)
    \/ \E e \in Emails, h \in Hashes : UserService_update_user_password(e, h)
    \/ \E e \in Emails : CacheExpire(e)

SpecLookupRace == Init /\ [][NextLookupRace]_vars

(* All request handlers that write users, with the service's confirmation *)
(* and overlapping lookups as their environment                            *)

NextHandlers ==
    \/ \E user_data \in SignupPayloads : signup(user_data)
    \/ \E form_data \in SigninForms : signin(form_data)
    \/ \E tok \in tokens : generate_access_token([refresh_token |-> tok])
    \/ \E tok \in tokens : confirm_email(tok)
    \/ \E e \in Emails : request_rest_password([email |-> e])
    \/ \E tok \in tokens : reset_password(tok, "pw2")
    \/ \E tok \in tokens, outcome \in UploadOutcomes :
          update_user_avatar(tok, outcome)
    \/ \E e \in Emails : get_user_by_email_step("r1", e)
    \/ UserService_confirm_user_email("a@x.io")
    \/ IssueEmailToken("a@x.io")
    \/ create_authenticated_user("a@x.io")

SpecHandlers == InitHandlers /\ [][NextHandlers]_vars

(* Token issue and verification *)

NextTokens ==
    \/ UserService_create_user(
          [email |-> "a@x.io", password |-> get_password_hash("pw1"),
           role |-> None])
    \/ \E sub \in Subjects : IssueAccessToken(sub)
    \/ \E sub \in Subjects : IssueRefreshToken(sub)
    \/ \E sub \in Subjects : IssueEmailToken(sub)
    \/ \E tok \in Presentable : Authenticate(tok)
    \/ \E tok \in Presentable : VerifyRefresh(tok)
    \/ Tick

SpecTokens == Init /\ [][NextTokens]_vars

(* The /auth handlers *)

NextAuth ==
    \/ \E body \in UserCreateBodies : UserService_create_user(body)
    \/ \E e \in Emails : UserService_confirm_user_email(e)
    \/ \E sub \in Emails : IssueRefreshToken(sub)
    \/ \E user_data \in SignupPayloads : signup(user_data)
    \/ \E form_data \in SigninForms : signin(form_data)
    \/ \E tok \in Presentable : generate_access_token([refresh_token |-> tok])
    \/ Tick

SpecAuth == Init /\ [][NextAuth]_vars

(* The /contacts handlers, two fixture users *)

NextContacts ==
    \/ \E tok \in Callers, body \in ContactBodies : create_contact(tok, body)
    \/ \E tok \in Callers, id \in ContactIds : get_contact(tok, id)
    \/ \E tok \in Callers, id \in ContactIds, body \in ContactUpdates :
          update_contact(tok, id, body)
    \/ \E tok \in Callers, id \in ContactIds : delete_contact(tok, id)
    \/ \E tok \in Callers, page \in {1, 2}, email \in {None, "c1@y.io"} :
          get_contacts(tok, page, 1, email)

InitContacts == InitFixture /\ today = 361

SpecContacts == InitContacts /\ [][NextContacts]_vars

(* Upcoming birthdays *)

NextBirthdays ==
    \/ \E body \in BirthdayBodies : create_contact(TokenA, body)
    \/ create_contact(TokenB, [email |-> "c1@y.io", phone |-> "+3801",
                               birthday |-> [y |-> 1990, m |-> 12, d |-> 31]])
    \/ \E tok \in {TokenA, MalformedToken}, n \in DaysAheadChoices :
          get_upcoming_birthdays(tok, n)
    \/ NextDay(Days)

SpecBirthdays == InitFixture /\ [][NextBirthdays]_vars

(* The /users handlers, an administrator and a plain user *)

NextAvatar ==
    \/ \E tok \in Presentable, outcome \in UploadOutcomes :
          update_user_avatar(tok, outcome)
    \/ \E tok \in Presentable : get_current_user_info(tok)
    \/ \E e \in Emails : CacheExpire(e)
    \/ Tick

SpecAvatar == InitAvatar /\ [][NextAvatar]_vars

(* Email confirmation and password reset *)

NextEmailTokens ==
    \/ UserService_create_user(
          [email |-> "a@x.io", password |-> get_password_hash("pw1"),
           role |-> None])
    \/ \E e \in Emails : UserService_confirm_user_email(e)
    \/ \E e \in Emails : IssueEmailToken(e)
    \/ \E e \in Emails :
          \E tok \in {NullToken} \cup {t \in tokens : t.sub = e} :
             UserService_update_reset_password_token(e, tok)
    \/ \E tok \in Presentable : confirm_email(tok)
    \/ \E e \in Emails : request_rest_password([email |-> e])
    \/ \E tok \in Presentable, pw \in Passwords : reset_password(tok, pw)
    \/ Tick

SpecEmailTokens == Init /\ [][NextEmailTokens]_vars

(* The Redis client of the process *)

NextRedisClient ==
    \/ \E r \in Requests : RedisClient_get_client(r)
    \/ \E r \in Requests : RedisClient_close(r)

SpecRedisClient == Init /\ [][NextRedisClient]_vars

(* Signup requests that overlap *)

NextSignupRace ==
    \/ \E r \in Requests, user_data \in SignupPayloads : signup_step(r, user_data)
    \/ \E body \in UserCreateBodies : UserService_create_user(body)
    \/ \E e \in Emails : UserService_confirm_user_email(e)
    \/ \E e \in Emails : CacheExpire(e)

SpecSignupRace == Init /\ [][NextSignupRace]_vars

-----------------------------------------------------------------------------
(* Properties *)

\* C1: a signup with an email not yet in the store creates a user whose
\* email_verified is false (201); a signup with an email already there is
\* answered 409 and the store is left as it was.
C1_SignupContract ==
    [][\A user_data \in SignupPayloads :
          (resp'.op = "signup" /\ resp'.arg = user_data) =>
             IF Exists(user_data.email)
             THEN resp'.status = "409" /\ users' = users
             ELSE /\ resp'.status = "201"
                  /\ user_data.email \in DOMAIN users'
                  /\ users'[user_data.email].email_verified = FALSE]_vars

\* C2: a signin with the right password is answered 401 while the user's
\* email_verified is false, mints no token and writes nothing to the user;
\* with email_verified true it is answered 200 with an access token and a
\* refresh token.
C2_SigninContract ==
    [][\A form_data \in SigninForms :
          (/\ resp'.op = "signin"
           /\ resp'.arg = form_data
           /\ Exists(form_data.username)
           /\ verify_password(form_data.password,
                              users[form_data.username].password_hash)) =>
             IF users[form_data.username].email_verified
             THEN /\ resp'.status = "200"
                  /\ resp'.out.access_token.token_type = "access"
                  /\ resp'.out.refresh_token.token_type = "refresh"
             ELSE /\ resp'.status = "401"
                  /\ tokens' = tokens
                  /\ users' = users]_vars

\* C3: get_current_user accepts a token only if it is signed with the
\* secret, unexpired and of token_type "access"; verify_refresh_token only
\* if it is signed, unexpired and of token_type "refresh".  A refresh token
\* is thus never accepted by the first, an access token never by the
\* second, an email token (no token_type) by neither.
C3_TokenKindChecked ==
    /\ (resp.op = "get_current_user" /\ resp.status = "ok") =>
          /\ resp.arg.key = JWT_SECRET
          /\ resp.arg.exp >= now
          /\ resp.arg.token_type = "access"
    /\ (resp.op = "verify_refresh_token" /\ resp.status = "ok") =>
          /\ resp.arg.key = JWT_SECRET
          /\ resp.arg.exp >= now
          /\ resp.arg.token_type = "refresh"

\* A signed, unexpired refresh token of an existing user was presented as a
\* bearer token and refused.
C3_RefreshTokenRefused ==
    /\ resp.op = "get_current_user"
    /\ resp.status = "401"
    /\ resp.arg.token_type = "refresh"
    /\ resp.arg.key = JWT_SECRET
    /\ resp.arg.exp >= now
    /\ Exists(resp.arg.sub)

\* C4: an access token just issued decodes to the subject it was issued
\* for (and authenticates that subject's user when there is one); an issued
\* access token no longer verifies once more than
\* ACCESS_TOKEN_EXPIRE_SECONDS have passed since its issue.
C4_AccessTokenRoundTrip ==
    /\ resp.op = "create_access_token" =>
          /\ jwt_decode(resp.out, JWT_SECRET, now).ok
          /\ jwt_decode(resp.out, JWT_SECRET, now).sub = resp.arg
          /\ Exists(resp.arg) =>
                /\ get_current_user(resp.out).ok
                /\ get_current_user(resp.out).user.email = resp.arg
    /\ \A tok \in tokens :
          (tok.token_type = "access"
             /\ now > tok.iat + ACCESS_TOKEN_EXPIRE_SECONDS) =>
                /\ ~jwt_decode(tok, JWT_SECRET, now).ok
                /\ ~get_current_user(tok).ok

\* An access token of an existing user was presented after its lifetime
\* and refused.
C4_ExpiredTokenRefused ==
    /\ resp.op = "get_current_user"
    /\ resp.status = "401"
    /\ resp.arg.token_type = "access"
    /\ resp.arg.key = JWT_SECRET
    /\ Exists(resp.arg.sub)
    /\ now > resp.arg.iat + ACCESS_TOKEN_EXPIRE_SECONDS

\* C5: a create by an authenticated caller is answered 201 and adds the row
\* exactly when the caller owns no contact with that email and none with
\* that phone, whatever other owners hold; otherwise it is answered 409,
\* adds nothing, and the message names the email for a duplicate email and
\* the phone for a duplicate phone.
C5_ContactUniquePerOwner ==
    [][(resp'.op = "create_contact" /\ resp'.status # "401") =>
          LET body == resp'.arg.contact
              owner == resp'.arg.caller
              dupEmail == \E c \in contacts :
                             c.user_id = owner /\ c.email = body.email
              dupPhone == \E c \in contacts :
                             c.user_id = owner /\ c.phone = body.phone
              emailMsg == "Contact with this email already exists"
              phoneMsg == "Contact with this phone number already exists"
          IN  /\ owner = users[resp'.arg.token.sub].id
              /\ (~dupEmail /\ ~dupPhone) =>
                    /\ resp'.status = "201"
                    /\ resp'.out.user_id = owner
                    /\ resp'.out.email = body.email
                    /\ resp'.out.phone = body.phone
                    /\ resp'.out \notin contacts
                    /\ contacts' = contacts \cup {resp'.out}
              /\ (dupEmail \/ dupPhone) =>
                    /\ resp'.status = "409"
                    /\ contacts' = contacts
                    /\ resp'.detail \in {emailMsg, phoneMsg}
                    /\ resp'.detail = emailMsg => dupEmail
                    /\ resp'.detail = phoneMsg => dupPhone]_vars

\* Two owners hold a contact with the same email, and a second contact
\* with that email under one of them has just been refused.
C5_DuplicateEmailRefused ==
    /\ resp.op = "create_contact"
    /\ resp.status = "409"
    /\ resp.detail = "Contact with this email already exists"
    /\ \E c1, c2 \in contacts :
          /\ c1.user_id # c2.user_id
          /\ c1.email = c2.email
          /\ c1.email = resp.arg.contact.email

\* C6: the upcoming-birthdays answer is exactly the caller's contacts whose
\* birthday, placed by month and day on the circle of the days of a year,
\* lies no further after today than today + days_ahead does.
C6_UpcomingBirthdays ==
    (resp.op = "get_upcoming_birthdays" /\ resp.status = "200") =>
       LET Before == <<0, 31, 60, 91, 121, 152, 182, 213, 244, 274, 305, 335>>
           Pos(date) == Before[date.m] + date.d - 1
           start == DateOf(resp.arg.today)
           end == DateOf(resp.arg.today + resp.arg.days_ahead)
           Ahead(date) == (Pos(date) + 366 - Pos(start)) % 366
       IN  resp.out = {c \in contacts :
                          /\ c.user_id = resp.arg.caller
                          /\ c.birthday # NoDate
                          /\ Ahead(c.birthday) <= Ahead(end)}

\* Asked in December for 7 days that end in January: the contact whose
\* birthday is 3 days ahead is returned, the caller's contact whose
\* birthday was 30 days ago is not.
C6_WindowOverYearEnd ==
    /\ resp.op = "get_upcoming_birthdays"
    /\ resp.status = "200"
    /\ resp.arg.days_ahead = 7
    /\ DateOf(today).m = 12
    /\ DateOf(today + 7).m = 1
    /\ \E c \in resp.out : MD(c.birthday) = MD(DateOf(today + 3))
    /\ \E c \in contacts \ resp.out :
          /\ c.user_id = resp.arg.caller
          /\ MD(c.birthday) = MD(DateOf(today - 30))

\* C7: a call of update_multiple_fields that names any field outside
\* password_hash, avatar_url, email_verified, reset_password_token raises,
\* leaves every attribute of the user as it was, and neither commits nor
\* refreshes; the row in the store is the one from before the call.
C7_UpdateAllOrNothing ==
    (/\ resp.op = "UserService.update_multiple_user_fields"
     /\ DOMAIN resp.arg.fields \ {"password_hash", "avatar_url", "email_verified",
                                  "reset_password_token"} # {}) =>
       /\ resp.status = "ValueError"
       /\ resp.out.after = resp.out.before
       /\ ~resp.out.committed
       /\ ~resp.out.refreshed
       /\ users[resp.arg.email] = resp.out.before

\* A call that named role together with a new password_hash was refused.
C7_AllowedFieldNotApplied ==
    /\ resp.op = "UserService.update_multiple_user_fields"
    /\ resp.status = "ValueError"
    /\ "role" \in DOMAIN resp.arg.fields
    /\ "password_hash" \in DOMAIN resp.arg.fields
    /\ resp.arg.fields.password_hash # resp.out.before.password_hash

\* C8: every cache entry was serialized from a row whose password hash is
\* the one the store holds now, and right after update_user_password the
\* user's entry is absent.
C8_NoStalePasswordInCache ==
    /\ \A e \in DOMAIN cache :
          cache_src[e].password_hash = users[e].password_hash
    /\ resp.op = "UserService.update_user_password" =>
          resp.arg \notin DOMAIN cache

\* The password of a cached user was changed and the entry is gone.
C8_CachedUserPasswordChanged ==
    /\ resp.op = "UserService.update_user_password"
    /\ resp.out.was_cached
    /\ resp.out.before.password_hash # resp.out.after.password_hash
    /\ resp.arg \notin DOMAIN cache

\* C9: get, update and delete by an authenticated caller on the id of a
\* contact another user owns are answered 404 "Contact not found", the
\* answer for an id no contact has, and leave the table as it was; a
\* listing holds only contacts the caller owns.
C9_ContactsIsolated ==
    [][LET owner == users[resp'.arg.token.sub].id
           byId == resp'.op \in {"get_contact", "update_contact", "delete_contact"}
           foreign == \E c \in contacts :
                         c.id = resp'.arg.contact_id /\ c.user_id # owner
           missing == \A c \in contacts : c.id # resp'.arg.contact_id
       IN  /\ (byId /\ resp'.status # "401" /\ foreign) =>
                 /\ resp'.status = "404"
                 /\ resp'.detail = "Contact not found"
                 /\ contacts' = contacts
           /\ (byId /\ resp'.status # "401" /\ missing) =>
                 /\ resp'.status = "404"
                 /\ resp'.detail = "Contact not found"
           /\ (resp'.op = "get_contacts" /\ resp'.status = "200") =>
                 \A i \in 1 .. Len(resp'.out) : resp'.out[i].user_id = owner]_vars

\* A delete of another user's contact was answered 404 and the contact is
\* still there.
C9_ForeignDeleteNotFound ==
    /\ resp.op = "delete_contact"
    /\ resp.status = "404"
    /\ \E c \in contacts :
          /\ c.id = resp.arg.contact_id
          /\ c.user_id # resp.arg.caller
          /\ resp.arg.caller # 0

\* C10: a refresh with a refresh token that verifies is answered 200 with
\* an access token for the token's subject and the presented refresh token,
\* the user rows untouched; with any other token it is answered 401 and no
\* token is minted.
C10_RefreshContract ==
    [][resp'.op = "refresh" =>
          LET tok == resp'.arg.refresh_token IN
          IF verify_refresh_token(tok).ok
          THEN /\ resp'.status = "200"
               /\ resp'.out.access_token = create_access_token(tok.sub, now)
               /\ resp'.out.refresh_token = tok
               /\ users' = users
          ELSE /\ resp'.status = "401"
               /\ tokens' = tokens]_vars

\* C12: when two signup requests for one email both arrived while the email
\* was not in the store and both have been answered, one was answered 201,
\* the other 409, and the store holds the user.
C12_SignupRace ==
    \A r1, r2 \in Requests :
       (/\ r1 # r2
        /\ inflight[r1].pc = "done" /\ inflight[r2].pc = "done"
        /\ inflight[r1].email = inflight[r2].email
        /\ inflight[r1].fresh /\ inflight[r2].fresh) =>
          /\ {inflight[r1].status, inflight[r2].status} = {"201", "409"}
          /\ Exists(inflight[r1].email)

\* C11: a refresh token that verify_refresh_token accepts is the refresh
\* token stored on the record of the user it names.
C11_RefreshMatchesStored ==
    (resp.op = "verify_refresh_token" /\ resp.status = "ok") =>
        /\ Exists(resp.arg.sub)
        /\ users[resp.arg.sub].refresh_token = resp.arg

\* C13: a signin for an email without account, or with a password that does
\* not verify, is answered 401 'Incorrect email or password'; the answer
\* 'Email is not verified' is given only when the password verifies.
C13_SigninUniformRefusal ==
    [][\A form_data \in SigninForms :
          (resp'.op = "signin" /\ resp'.arg = form_data) =>
             /\ (\/ ~Exists(form_data.username)
                 \/ ~verify_password(form_data.password,
                                     users[form_data.username].password_hash)) =>
                    /\ resp'.status = "401"
                    /\ resp'.detail = "Incorrect email or password"
             /\ resp'.detail = "Email is not verified" =>
                    /\ Exists(form_data.username)
                    /\ verify_password(form_data.password,
                                       users[form_data.username].password_hash)]_vars

\* What jose makes of a presented email token at the present time.
Verifies(tok) ==
    LET p == jwt_decode(tok, JWT_SECRET, now) IN p.ok /\ p.sub # NoSub

\* The conditions under which a reset is to be honoured.
Honoured(tok, pw) ==
    /\ Verifies(tok)
    /\ Exists(tok.sub)
    /\ users[tok.sub].reset_password_token = tok
    /\ ~verify_password(pw, users[tok.sub].password_hash)

\* C14: a reset-password call changes the user store only when the token
\* verifies, equals the reset token stored for its email and the new password
\* differs from the current one; a call answered with anything but 200
\* leaves every password hash and stored reset token as they were.
C14_ResetOnlyWhenHonoured ==
    [][resp'.op = "reset_password" =>
          /\ users' # users =>
                Honoured(resp'.arg.token, resp'.arg.new_password)
          /\ ~Honoured(resp'.arg.token, resp'.arg.new_password) =>
                users' = users
          /\ resp'.status # "200" => users' = users]_vars

\* C14 witness: a reset was refused for a user whose stored reset token is
\* another, correctly signed token than the one presented.
C14_WrongTokenRefused ==
    /\ resp.op = "reset_password"
    /\ resp.status # "200"
    /\ resp.arg.token.key = JWT_SECRET
    /\ Exists(resp.arg.token.sub)
    /\ users[resp.arg.token.sub].reset_password_token # NullToken
    /\ users[resp.arg.token.sub].reset_password_token # resp.arg.token

C16_ResetRequestContract ==
    [][resp'.op = "request_rest_password" =>
          LET email == resp'.arg.email
              mailed == resp'.status = "200" /\ resp'.out.mailed
          IN
          /\ DOMAIN users' = DOMAIN users
          /\ \A u \in DOMAIN users :
                users'[u] # users[u] =>
                   /\ u = email
                   /\ users[u].reset_password_token = NullToken
                   /\ users'[u] = [users[u] EXCEPT !.reset_password_token =
                                                      create_email_token(u, now)]
          /\ mailed => /\ Exists(email)
                       /\ users'[email].email_verified
                       /\ users'[email].reset_password_token # NullToken
          /\ ~Exists(email) => users' = users /\ tokens' = tokens /\ ~mailed]_vars

\* C16 witness: a reset was requested for a user with an outstanding token.
C16_OutstandingTokenKept ==
    /\ resp.op = "request_rest_password"
    /\ Exists(resp.arg.email)
    /\ users[resp.arg.email].reset_password_token # NullToken

\* C17: confirm-email with a token that verifies and names a user answers
\* 200 and leaves the user verified; when the user was verified already,
\* the user store is left as it was.
C17_ConfirmIdempotent ==
    [][(resp'.op = "confirm_email" /\ Verifies(resp'.arg)
           /\ Exists(resp'.arg.sub)) =>
          /\ resp'.status = "200"
          /\ users'[resp'.arg.sub].email_verified
          /\ users[resp'.arg.sub].email_verified =>
                users' = users /\ cache' = cache]_vars

\* The token a confirm-email or reset-password call was made with.
PresentedToken(r) == IF r.op = "confirm_email" THEN r.arg ELSE r.arg.token

\* C18 (as the code has it): confirm-email and reset-password answer 422
\* 'Invalid token' exactly to the tokens that fail verification, and such a
\* call changes neither the user store nor the cache.
C18_UnverifiableToken422 ==
    [][resp'.op \in {"confirm_email", "reset_password"} =>
          IF Verifies(PresentedToken(resp'))
          THEN resp'.status # "422"
          ELSE /\ resp'.status = "422"
               /\ resp'.detail = "Invalid token"
               /\ users' = users
               /\ cache' = cache]_vars

\* C18 witness: a correctly signed token presented after its expiry was
\* answered 422.
C18_ExpiredTokenAnswered422 ==
    /\ resp.op \in {"confirm_email", "reset_password"}
    /\ resp.status = "422"
    /\ PresentedToken(resp).key = JWT_SECRET
    /\ PresentedToken(resp).sub # NoSub

\* C18 (as stated): a token that fails verification is answered 400
\* 'Invalid token'.
C18_UnverifiableToken400 ==
    [][(resp'.op \in {"confirm_email", "reset_password"}
           /\ ~Verifies(PresentedToken(resp'))) =>
          /\ resp'.status = "400"
          /\ resp'.detail = "Invalid token"]_vars

\* C19: an update of one of the caller's contacts that would give it the
\* email or the phone of another contact of the same owner is answered 409,
\* and the table of contacts is left as it was.
C19_UpdateConflict409 ==
    [][resp'.op = "update_contact" =>
          \A row \in contacts :
             (/\ row.id = resp'.arg.contact_id
              /\ row.user_id = resp'.arg.caller
              /\ ViolatedConstraints(Repo_update_contact(row, resp'.arg.contact),
                                     contacts \ {row}) # {}) =>
                /\ resp'.status = "409"
                /\ contacts' = contacts]_vars

\* The caller an access token stands for at the present time, if any.
AccessTokenValid(tok) ==
    LET p == jwt_decode(tok, JWT_SECRET, now) IN
    p.ok /\ p.sub # NoSub /\ p.token_type = "access" /\ Exists(p.sub)

\* C20: a PATCH /users/avatar changes an avatar_url only for a caller with
\* a valid access token and role ADMIN, and only the caller's own; a caller
\* without valid access token is answered 401, a caller whose role is not
\* ADMIN 403, and in both cases no upload is made and no user changes.
C20_AvatarAdminOnly ==
    [][resp'.op = "update_user_avatar" =>
          LET tok == resp'.arg.token IN
          /\ \A e \in DOMAIN users :
                users'[e] # users[e] =>
                   /\ AccessTokenValid(tok)
                   /\ e = tok.sub
                   /\ users[e].role = ADMIN
                   /\ users'[e] = [users[e] EXCEPT !.avatar_url = resp'.arg.outcome]
          /\ ~AccessTokenValid(tok) =>
                /\ resp'.status = "401"
                /\ ~resp'.out.uploaded
                /\ users' = users
          /\ (AccessTokenValid(tok) /\ users[tok.sub].role # ADMIN) =>
                /\ resp'.status = "403"
                /\ ~resp'.out.uploaded
                /\ users' = users
          /\ (AccessTokenValid(tok) /\ users[tok.sub].role = ADMIN) =>
                resp'.out.uploaded]_vars

\* C20 witness: the administrator's avatar has been changed by an upload,
\* and the plain user's call with a valid access token has just been
\* answered 403.
C20_NonAdminRefused ==
    /\ resp.op = "update_user_avatar"
    /\ resp.status = "403"
    /\ resp.arg.token = TokenB
    /\ users["a@x.io"].avatar_url \in UploadedUrls
    /\ users["b@x.io"].avatar_url = None

\* C21: an avatar update whose upload fails is answered 500; no user row
\* changes, and every cache entry there is afterwards carries the avatar_url
\* it carried before or, when it was put by this call's authentication, the
\* avatar_url of the store.
C21_UploadFailureLeavesAvatar ==
    [][(/\ resp'.op = "update_user_avatar"
        /\ resp'.arg.outcome = UploadFailed
        /\ resp'.out.uploaded) =>
          /\ resp'.status = "500"
          /\ users' = users
          /\ \A e \in DOMAIN cache' :
                cache'[e].avatar_url =
                   IF e \in DOMAIN cache THEN cache[e].avatar_url
                   ELSE users[e].avatar_url]_vars

\* C21 witness: the administrator, whose avatar was set by an earlier
\* upload and is cached, has just had an upload fail.
C21_UploadFailedAfterSuccess ==
    /\ resp.op = "update_user_avatar"
    /\ resp.arg.outcome = UploadFailed
    /\ resp.status = "500"
    /\ users["a@x.io"].avatar_url \in UploadedUrls
    /\ "a@x.io" \in DOMAIN cache
    /\ cache["a@x.io"].avatar_url = users["a@x.io"].avatar_url

\* C22: update_multiple_fields called with no field returns the user as it
\* was and neither commits nor refreshes.
C22_NoFieldsNoCommit ==
    (/\ resp.op = "UserService.update_multiple_user_fields"
     /\ DOMAIN resp.arg.fields = {}) =>
        /\ resp.out.after = resp.out.before
        /\ ~resp.out.committed
        /\ ~resp.out.refreshed

C24_OneUnauthorizedAnswer ==
    [][(resp'.op = "get_current_user" /\ ~AccessTokenValid(resp'.arg)) =>
          /\ resp'.status = "401"
          /\ resp'.detail = "Unauthorized"
          /\ resp'.out = NoUser]_vars

\* C24 witness: an access token of an existing user, correctly signed and
\* presented after its expiry, was answered 401 'Unauthorized'.
C24_ExpiredAnsweredUnauthorized ==
    /\ resp.op = "get_current_user"
    /\ resp.status = "401"
    /\ resp.detail = "Unauthorized"
    /\ resp.arg.key = JWT_SECRET
    /\ resp.arg.token_type = "access"
    /\ resp.arg.exp < now
    /\ Exists(resp.arg.sub)

\* C25 (as the code has it): a step that changes a user's password hash
\* through update_user_password leaves no cache entry for the user; a step
\* that changes it through update_multiple_user_fields leaves an entry, and
\* that entry is the snapshot of the row as updated.
C25_PasswordChangeRenewsCache ==
    [][\A e \in DOMAIN users :
          users'[e].password_hash # users[e].password_hash =>
             IF resp'.op = "UserService.update_user_password"
             THEN e \notin DOMAIN cache'
             ELSE /\ resp'.op = "UserService.update_multiple_user_fields"
                  /\ e \in DOMAIN cache'
                  /\ cache'[e] = UserModel(users'[e])
                  /\ cache_src'[e] = users'[e]]_vars

\* C25 witness: update_multiple_user_fields has changed the password hash
\* of a user who was cached and the user is in the cache with the
\* snapshot of the row as changed.
C25_EntryPutAfterPasswordChange ==
    /\ resp.op = "UserService.update_multiple_user_fields"
    /\ resp.status = "ok"
    /\ resp.out.before.password_hash # resp.out.after.password_hash
    /\ resp.arg.email \in DOMAIN cache
    /\ cache_src[resp.arg.email].password_hash = resp.out.after.password_hash

\* C25 (as stated): every step that changes a user's password hash removes
\* the user's cache entry.
C25_PasswordChangeInvalidates ==
    [][\A e \in DOMAIN users :
          users'[e].password_hash # users[e].password_hash =>
             e \notin DOMAIN cache']_vars

\* C26: whatever the interleaving of password updates with lookups, every
\* entry a cache read can return was taken from a row that had the password
\* hash the store holds now, i.e. not before the last completed update.
C26_NoSnapshotFromBeforeUpdate ==
    \A e \in DOMAIN cache :
       Exists(e) => cache_src[e].password_hash = users[e].password_hash

\* C27: a reset request for a verified user whose stored reset token has
\* expired is answered 200, leaves an unexpired reset token stored for the
\* user and schedules the email that carries it.
C27_ExpiredResetTokenReplaced ==
    [][(/\ resp'.op = "request_rest_password"
        /\ Exists(resp'.arg.email)
        /\ users[resp'.arg.email].email_verified
        /\ users[resp'.arg.email].reset_password_token # NullToken
        /\ ~Verifies(users[resp'.arg.email].reset_password_token)) =>
          /\ resp'.status = "200"
          /\ resp'.out.mailed
          /\ Verifies(users'[resp'.arg.email].reset_password_token)]_vars

C29_VerifiedMonotonic ==
    [][\A e \in DOMAIN users :
          users[e].email_verified =>
             (e \in DOMAIN users' /\ users'[e].email_verified)]_vars

\* C29 witness: an avatar update has succeeded for a caller whose user
\* object came from a cache entry taken before the email was verified, and
\* the user is verified in the store.
C29_StaleCallerStaysVerified ==
    /\ resp.op = "update_user_avatar"
    /\ resp.status = "200"
    /\ ~resp.arg.caller.email_verified
    /\ users[resp.arg.caller.email].email_verified

\* Every access or refresh token there is names a verified user.
SessionTokensOfVerified ==
    \A tok \in tokens :
       tok.token_type \in {"access", "refresh"} =>
          Exists(tok.sub) /\ users[tok.sub].email_verified

\* C30: every access or refresh token there is names a user who is verified
\* already, and a confirm-email call made with an access or refresh token
\* changes no user's email_verified.
C30_SessionTokenConfirmsNobody ==
    [][/\ SessionTokensOfVerified
       /\ SessionTokensOfVerified'
       /\ (resp'.op = "confirm_email"
              /\ resp'.arg.token_type \in {"access", "refresh"}) =>
             \A e \in DOMAIN users :
                users'[e].email_verified = users[e].email_verified]_vars

\* C30 witness: confirm-email has been called with a signed access token
\* while there is a user who is not verified.
C30_AccessTokenPresentedToConfirm ==
    /\ resp.op = "confirm_email"
    /\ resp.arg.token_type = "access"
    /\ resp.arg.key = JWT_SECRET
    /\ \E e \in DOMAIN users : ~users[e].email_verified

====
